---- MODULE Spec2Model ----
\* A model of jav_renamer.py: the identifier extractor, the numeric normaliser,
\* the segment detector, the filename builder, the local fallback and the
\* rename scheduler main().  File names are sequences of one-character strings,
\* so that the regular expressions of the source are modelled by what they match.
EXTENDS Integers, Sequences, FiniteSets, TLC

VARIABLES
    dry_run,          \* main's parameter: TRUE in preview mode
    rootValid,        \* os.path.isdir(target_directory)
    fs0,              \* the directory tree when the first run starts
    fs,               \* the directory tree: <<dir, name>> -> content
    pc,               \* main's position
    run,              \* 1 in the first run of the tool, 2 in a second run
    startupDelayed,   \* the time.sleep(3) of line 129 was issued in this run
    stack,            \* os.walk: the directories still to be yielded
    root,             \* the directory os.walk yielded last
    visited,          \* the directories os.walk has yielded
    files,            \* files_in_directory, the part not yet iterated
    processed_count,
    error_count,
    slept,            \* a time.sleep(3) of line 244 ran since the last resolver call
    notified,         \* what send_completion_notification was called with
    log,              \* one record per resolver call, in order
    inp,              \* the argument of a pure function under check
    out               \* its result

vars == <<dry_run, rootValid, fs0, fs, pc, run, startupDelayed, stack, root,
          visited, files, processed_count, error_count, slept, notified, log,
          inp, out>>

walkVarsButPc == <<dry_run, rootValid, fs0, fs, run, startupDelayed, stack, root,
                   visited, files, processed_count, error_count, slept, notified, log>>

\* ------------------------------------------------------------------ bounds
\* Every string over RichAlphabet up to this length is an extractor input.
MaxLen == 4
\* Every string over ThinAlphabet up to this length is an extractor input
\* (long enough for a run of seven letters followed by two digits).
MaxLong == 9
\* The number of files of the initial directory tree.
MaxFiles == 3
\* The number of files of a tree on which the tool is run a second time.
MaxRerunFiles == 2
\* The characters between the identifiers of a name given to the segment
\* detection.
MaxTail == 3

\* ------------------------------------------------------------- characters
LowerLetters == <<"a","b","c","d","e","f","g","h","i","j","k","l","m",
                  "n","o","p","q","r","s","t","u","v","w","x","y","z">>
UpperLetters == <<"A","B","C","D","E","F","G","H","I","J","K","L","M",
                  "N","O","P","Q","R","S","T","U","V","W","X","Y","Z">>
Digits == <<"0","1","2","3","4","5","6","7","8","9">>

Range(s) == {s[i] : i \in 1..Len(s)}
IndexOf(s, c) == CHOOSE i \in 1..Len(s) : s[i] = c

IsLower(c) == c \in Range(LowerLetters)
IsUpper(c) == c \in Range(UpperLetters)
\* [A-Za-z]
IsLetter(c) == IsLower(c) \/ IsUpper(c)
\* \d
IsDigit(c) == c \in Range(Digits)
LetterClass == Range(LowerLetters) \cup Range(UpperLetters)
DigitClass == Range(Digits)
\* [-_ ]
IsSep(c) == c \in {"-", "_", " "}

\* str.upper and str.lower, one character at a time
UpperChar(c) == IF IsLower(c) THEN UpperLetters[IndexOf(LowerLetters, c)] ELSE c
LowerChar(c) == IF IsUpper(c) THEN LowerLetters[IndexOf(UpperLetters, c)] ELSE c
Upper(s) == [i \in 1..Len(s) |-> UpperChar(s[i])]
Lower(s) == [i \in 1..Len(s) |-> LowerChar(s[i])]

\* ord(c), for the characters file names are made of here
CharCode(c) ==
    IF IsDigit(c) THEN 47 + IndexOf(Digits, c)
    ELSE IF IsUpper(c) THEN 64 + IndexOf(UpperLetters, c)
    ELSE IF IsLower(c) THEN 96 + IndexOf(LowerLetters, c)
    ELSE IF c = " " THEN 32
    ELSE IF c = "-" THEN 45
    ELSE IF c = "." THEN 46
    ELSE IF c = "@" THEN 64
    ELSE IF c = "[" THEN 91
    ELSE IF c = "]" THEN 93
    ELSE IF c = "_" THEN 95
    ELSE 127

\* s < t as Python compares str: at the first position where they differ s
\* has the smaller character, or s ends there
StrLess(s, t) ==
    \E k \in 1..Len(t) :
        /\ \A j \in 1..(k - 1) : j <= Len(s) /\ s[j] = t[j]
        /\ \/ k = Len(s) + 1
           \/ k <= Len(s) /\ CharCode(s[k]) < CharCode(t[k])

\* sorted(names): each name stands after the names smaller than it
Sorted(S) ==
    [i \in 1..Cardinality(S) |->
        CHOOSE x \in S : Cardinality({y \in S : StrLess(y, x)}) = i - 1]

StartsWith(s, p) == Len(p) <= Len(s) /\ SubSeq(s, 1, Len(p)) = p
EndsWith(s, p) == Len(p) <= Len(s) /\ SubSeq(s, Len(s) - Len(p) + 1, Len(s)) = p
Repeat(c, n) == [i \in 1..n |-> c]

\* The length of the longest run of characters of the class C that starts at i.
RunLen(C, s, i) ==
    IF i > Len(s) THEN 0
    ELSE CHOOSE n \in 0..(Len(s) - i + 1) :
            /\ \A x \in i..(i + n - 1) : s[x] \in C
            /\ i + n > Len(s) \/ s[i + n] \notin C

\* ------------------------------------------------- extract_id_from_filename
\* The quantifier bounds of r'([A-Za-z]{1,6})[-_ ]?(\d{2,6})'
MinLetters == 1
MaxLetters == 6
MinDigits == 2
MaxDigits == 6

None == <<>>
NoMatch == [found |-> FALSE, letters |-> <<>>, digits |-> <<>>, end |-> 0]

\* The pattern tried at position i with exactly k letters: the separator is
\* taken when present (greedy ?), then as many digits as the bound allows.
TryLetters(s, i, k) ==
    LET j == i + k
        d == IF j <= Len(s) /\ IsSep(s[j]) /\ RunLen(DigitClass, s, j + 1) >= MinDigits
             THEN j + 1 ELSE j
        run_ == RunLen(DigitClass, s, d)
        n == IF run_ > MaxDigits THEN MaxDigits ELSE run_
    IN  IF \A x \in i..(j - 1) : x <= Len(s) /\ IsLetter(s[x])
        THEN IF n >= MinDigits
             THEN [found |-> TRUE, letters |-> SubSeq(s, i, j - 1),
                   digits |-> SubSeq(s, d, d + n - 1), end |-> d + n]
             ELSE NoMatch
        ELSE NoMatch

\* re's match at position i: the greedy {1,6} tries the longest letter run
\* first and backtracks to shorter ones.
MatchAt(s, i) ==
    LET ks == {k \in MinLetters..MaxLetters : TryLetters(s, i, k).found}
    IN  IF ks = {} THEN NoMatch
        ELSE TryLetters(s, i, CHOOSE k \in ks : \A k2 \in ks : k2 <= k)

\* re.findall scans left to right and resumes after each match; matches[-1]
RECURSIVE LastMatch(_, _, _)
LastMatch(s, i, last) ==
    IF i > Len(s) THEN last
    ELSE CHOOSE r \in {IF m.found THEN LastMatch(s, m.end, m)
                       ELSE LastMatch(s, i + 1, last) : m \in {MatchAt(s, i)}} : TRUE

\* raw.lstrip('0')
RECURSIVE LStripZeros(_)
LStripZeros(raw) ==
    IF raw # <<>> /\ raw[1] = "0" THEN LStripZeros(Tail(raw)) ELSE raw

\* str.zfill(width) of a string without sign
ZFill(s, width) == IF Len(s) >= width THEN s ELSE Repeat("0", width - Len(s)) \o s

\* The length from which the number is not padded again (line 88), and the
\* width it is padded to below that (line 91).
NoPadLength == 4
PadWidth == 3

NormalizeNumberNoPad(raw) ==
    LET stripped == LStripZeros(raw)
    IN  IF stripped = <<>> THEN <<"0">> ELSE stripped

\* lines 86-91
NormalizeNumber(raw) ==
    LET stripped == LStripZeros(raw)
        orZero == IF stripped = <<>> THEN <<"0">> ELSE stripped
    IN  IF Len(raw) >= NoPadLength THEN orZero ELSE ZFill(orZero, PadWidth)

ExtractFirstMatch(filename) ==
    LET ms == {i \in 1..Len(filename) : MatchAt(filename, i).found}
    IN  IF ms = {} THEN None
        ELSE LET m == MatchAt(filename, CHOOSE i \in ms : \A i2 \in ms : i <= i2)
             IN  Upper(m.letters) \o <<"-">> \o NormalizeNumber(m.digits)

extract_id_from_filename(filename) ==
    LET last == LastMatch(filename, 1, NoMatch)
    IN  IF last.found
        THEN Upper(last.letters) \o <<"-">> \o NormalizeNumber(last.digits)
        ELSE None

\* ------------------------------------------------------------------ names
\* os.path.splitext(filename): the extension starts at the last dot, unless
\* only dots precede it.
SplitExt(filename) ==
    LET dots == {i \in 1..Len(filename) : filename[i] = "."}
    IN  IF dots = {} THEN <<filename, <<>>>>
        ELSE LET dotIndex == CHOOSE i \in dots : \A j \in dots : j <= i
             IN  IF \E k \in 1..(dotIndex - 1) : filename[k] # "."
                 THEN <<SubSeq(filename, 1, dotIndex - 1),
                        SubSeq(filename, dotIndex, Len(filename))>>
                 ELSE <<filename, <<>>>>

VIDEO_EXTENSIONS ==
    { <<".","m","p","4">>, <<".","m","k","v">>, <<".","a","v","i">>,
      <<".","w","m","v">>, <<".","m","o","v">>, <<".","f","l","v">>,
      <<".","r","m","v","b">>, <<".","m","4","v">> }
AUDIO_EXTENSIONS ==
    { <<".","m","p","3">>, <<".","w","a","v">>, <<".","f","l","a","c">>,
      <<".","o","p","u","s">>, <<".","m","4","a">> }
SUBTITLE_EXTENSIONS ==
    { <<".","s","r","t">>, <<".","a","s","s">>, <<".","v","t","t">> }
SUPPORTED_EXTENSIONS == VIDEO_EXTENSIONS \cup AUDIO_EXTENSIONS \cup SUBTITLE_EXTENSIONS

\* The characters outside ASCII are written by their code points.
TITLE_EXCLUDE_KEYWORDS ==
    << <<"U+3010","F","A","N","Z","A","U+9650","U+5B9A","U+3011">> >>

\* r'hhd800\.com@' matches this literal text only
FILENAME_CLEAN_PATTERNS ==
    << <<"h","h","d","8","0","0",".","c","o","m","@">> >>

\* str.replace(p, '') and re.sub of a literal pattern by '': every occurrence
\* found scanning left to right, resuming after each one.
RECURSIVE RemoveAll(_, _)
RemoveAll(s, p) ==
    IF s = <<>> \/ p = <<>> THEN s
    ELSE IF StartsWith(s, p) THEN RemoveAll(SubSeq(s, Len(p) + 1, Len(s)), p)
    ELSE <<s[1]>> \o RemoveAll(Tail(s), p)

RECURSIVE RemoveEach(_, _, _)
RemoveEach(s, patterns, k) ==
    IF k > Len(patterns) THEN s
    ELSE RemoveEach(RemoveAll(s, patterns[k]), patterns, k + 1)

\* str.strip() for the blank the titles here can hold
RECURSIVE LStrip(_)
LStrip(s) == IF s # <<>> /\ s[1] = " " THEN LStrip(Tail(s)) ELSE s
RECURSIVE RStrip(_)
RStrip(s) ==
    IF s # <<>> /\ s[Len(s)] = " " THEN RStrip(SubSeq(s, 1, Len(s) - 1)) ELSE s
Strip(s) == RStrip(LStrip(s))

\* The class [\/:*?"<>|]: the backslash of the pattern escapes the slash.
IllegalChars == {"/", ":", "*", "?", "\"", "<", ">", "|"}
sanitize_filename(text) ==
    [i \in 1..Len(text) |-> IF text[i] \in IllegalChars THEN "-" ELSE text[i]]

\* len(clean_title) > 50
MaxTitleLen == 50

\* lines 197-205
CleanTitle(raw_title) ==
    LET t == sanitize_filename(Strip(RemoveEach(raw_title, TITLE_EXCLUDE_KEYWORDS, 1)))
    IN  IF Len(t) > MaxTitleLen
        THEN SubSeq(t, 1, MaxTitleLen) \o <<".", ".", ".">>
        ELSE t

\* [A-Za-z0-9]
IsAlnum(c) == IsLetter(c) \/ IsDigit(c)

\* re.findall(r'([A-Za-z0-9]+)', base)[-1], None when there is no token
LastToken(base) ==
    LET idx == {i \in 1..Len(base) : IsAlnum(base[i])}
    IN  IF idx = {} THEN None
        ELSE LET e == CHOOSE i \in idx : \A j \in idx : j <= i
                 b == CHOOSE i \in 1..e :
                        /\ \A j \in i..e : IsAlnum(base[j])
                        /\ (i = 1 \/ ~IsAlnum(base[i - 1]))
             IN  SubSeq(base, b, e)

IsPartTokenPrefix(token) ==
    UpperChar(token[1]) \in {"A", "B", "C", "D", "1", "2", "3", "4"}
\* re.fullmatch(r'(?i)[A-D]|[1-4]', token)
IsPartToken(token) ==
    /\ Len(token) = 1
    /\ UpperChar(token[1]) \in {"A", "B", "C", "D", "1", "2", "3", "4"}

\* lines 166-172
PartSuffix(filename) ==
    LET last_token == LastToken(SplitExt(filename)[1])
    IN  IF last_token # None /\ IsPartToken(last_token)
        THEN <<" ">> \o Upper(last_token)
        ELSE <<>>

\* ------------------------------------------------------- resolver answers
\* jav_db.get_av_by_id either raises or returns (code, info); info is None or
\* a dict with a title and a list of stars; a star may lack its name.
Answer(raises, code, hasInfo, title, stars) ==
    [raises |-> raises, code |-> code, hasInfo |-> hasInfo, title |-> title,
     stars |-> stars]
Star(name) == [named |-> TRUE, name |-> name]
NamelessStar == [named |-> FALSE, name |-> <<>>]

LookupFailedIgnoresTitle(a) == a.code # 200 \/ ~a.hasInfo

\* code != 200 or not info or not info.get('title')
LookupFailed(a) == a.code # 200 \/ ~a.hasInfo \/ a.title = <<>>

\* lines 184-193: the target of the local fallback, None when nothing changes
FallbackName(filename) ==
    LET base_no_ext == SplitExt(filename)[1]
        ext == SplitExt(filename)[2]
        optimized_base == RemoveEach(base_no_ext, FILENAME_CLEAN_PATTERNS, 1)
    IN  IF optimized_base = base_no_ext THEN None ELSE optimized_base \o ext

\* sanitize_filename(None) raises TypeError
BuildRaises(a) == a.stars # <<>> /\ ~a.stars[1].named

BuildNameTestsTitleAndMarker(filename, a) ==
    LET jav_id == extract_id_from_filename(filename)
        ext == SplitExt(filename)[2]
        part_suffix == PartSuffix(filename)
        clean_title == CleanTitle(a.title)
        plain == jav_id \o <<" ">> \o clean_title \o part_suffix \o ext
    IN  IF a.stars # <<>>
        THEN LET actor_name == sanitize_filename(a.stars[1].name)
             IN  IF EndsWith(clean_title \o part_suffix, <<" ">> \o actor_name)
                 THEN plain
                 ELSE jav_id \o <<" ">> \o clean_title \o part_suffix
                      \o <<" ", "[">> \o actor_name \o <<"]">> \o ext
        ELSE plain

\* lines 197-221: the target name after a successful lookup
BuildName(filename, a) ==
    LET jav_id == extract_id_from_filename(filename)
        ext == SplitExt(filename)[2]
        part_suffix == PartSuffix(filename)
        clean_title == CleanTitle(a.title)
        plain == jav_id \o <<" ">> \o clean_title \o part_suffix \o ext
    IN  IF a.stars # <<>>
        THEN LET actor_name == sanitize_filename(a.stars[1].name)
             IN  IF EndsWith(clean_title, <<" ">> \o actor_name)
                 THEN plain
                 ELSE jav_id \o <<" ">> \o clean_title \o part_suffix
                      \o <<" ", "[">> \o actor_name \o <<"]">> \o ext
        ELSE plain

\* lines 152-163: the file is passed to the resolver
Hidden(filename) == filename # <<>> /\ filename[1] = "."
Supported(filename) ==
    LET ext == SplitExt(filename)[2]
    IN  ext # <<>> /\ Lower(ext) \in SUPPORTED_EXTENSIONS
EligibleHidden(filename) ==
    /\ Supported(filename)
    /\ extract_id_from_filename(filename) # None
Eligible(filename) ==
    /\ ~Hidden(filename)
    /\ Supported(filename)
    /\ extract_id_from_filename(filename) # None

\* ------------------------------------------------------- the directory tree
\* A directory is the sequence of names leading to it from the scan root.  The
\* tree holds a directory named no_need under the root, one under a
\* subdirectory, and a directory below a no_need directory.
Root == <<>>
Dirs == {Root, <<"sub">>, <<"no_need">>, <<"sub", "no_need">>, <<"no_need", "deep">>}
Children(d) == {e \in Dirs : Len(e) = Len(d) + 1 /\ SubSeq(e, 1, Len(d)) = d}
DirName(d) == d[Len(d)]
UnderNoNeed(d) == \E i \in 1..Len(d) : d[i] = "no_need"

\* The names files have when a run starts.
NameTagged == <<"h","h","d","8","0","0",".","c","o","m","@",
                "Z","R","K","-","0","0","2",".","m","p","4">>
NamePlain == <<"Z","R","K","-","0","0","2",".","m","p","4">>
NameTitled == <<"Z","R","K","-","0","0","2"," ","T",".","m","p","4">>
NameHidden == <<".","Z","R","K","-","0","0","2",".","m","p","4">>
NameText == <<"Z","R","K","-","0","0","2",".","t","x","t">>
NameNoId == <<"T",".","m","p","4">>

Slots ==
    ({Root} \X {NameTagged, NamePlain, NameTitled, NameHidden, NameText, NameNoId})
    \cup ({<<"sub">>} \X {NameTagged})
    \cup ({<<"no_need">>, <<"sub", "no_need">>, <<"no_need", "deep">>} \X {NamePlain})

\* A tree maps the path <<dir, name>> of each file to its content; a file's
\* content is named after the path it has when the first run starts.
Trees ==
    {[p \in S |-> p] : S \in {T \in SUBSET Slots : Cardinality(T) <= MaxFiles}}
EmptyTree == [p \in {} |-> p]

\* What the resolver may answer to one call.
TitleT == <<"T">>
TitleB == <<"B">>
StarP == Star(<<"P">>)
Raise == Answer(TRUE, 0, FALSE, <<>>, <<>>)
Responses ==
    { Raise,
      Answer(FALSE, 404, FALSE, <<>>, <<>>),
      Answer(FALSE, 200, FALSE, <<>>, <<>>),
      Answer(FALSE, 200, TRUE, <<>>, <<>>),
      Answer(FALSE, 200, TRUE, TitleT, <<>>),
      Answer(FALSE, 200, TRUE, TitleB, <<>>),
      Answer(FALSE, 200, TRUE, TitleT, <<StarP>>),
      Answer(FALSE, 200, TRUE, TitleT, <<NamelessStar>>) }

\* ------------------------------------------------------------------- main
NoNotification == [sent |-> FALSE, success |-> FALSE, processed |-> 0, errors |-> 0]

\* os.listdir restricted to files, os.path.exists, os.path.isfile, os.rename
FilesIn(tree, d) == {p[2] : p \in {q \in DOMAIN tree : q[1] = d}}
ExistsNever(tree, path) == FALSE
Exists(tree, path) == path \in DOMAIN tree
IsFile(tree, path) == path \in DOMAIN tree
Rename(tree, src, dst) ==
    [p \in (DOMAIN tree \ {src}) \cup {dst} |-> IF p = dst THEN tree[src] ELSE tree[p]]

\* lines 145-146: the directories os.walk descends into
KeepAll(dirs) == dirs
Prune(dirs) == {d \in dirs : DirName(d) # "no_need"}

Perms(S) ==
    {f \in [1..Cardinality(S) -> S] : \A i, j \in 1..Cardinality(S) : f[i] = f[j] => i = j}

\* line 227
CommitsAlways(dry) == TRUE
Commits(dry) == ~dry

\* lines 177-241 for one file: what is done with it and the target computed
\* for it (None when none is).
Plan(kind, target) == [kind |-> kind, target |-> target]
Apply(tree, d, new_filename, dry, renameRaises) ==
    IF Commits(dry)
    THEN IF Exists(tree, <<d, new_filename>>) THEN Plan("skip-exists", new_filename)
         ELSE IF renameRaises THEN Plan("exception", new_filename)
         ELSE Plan("renamed", new_filename)
    ELSE Plan("preview", new_filename)

Process(tree, d, filename, a, dry, renameRaises) ==
    IF a.raises THEN Plan("exception", None)
    ELSE IF LookupFailed(a)
    THEN IF FallbackName(filename) = None THEN Plan("no-local", None)
         ELSE Apply(tree, d, FallbackName(filename), dry, renameRaises)
    ELSE IF BuildRaises(a) THEN Plan("exception", None)
    ELSE Apply(tree, d, BuildName(filename, a), dry, renameRaises)

\* processed_count += 1 (lines 234, 237) and error_count += 1 (190, 230, 241)
CountsProcessedRenamedOnly(kind) == kind = "renamed"
CountsProcessed(kind) == kind \in {"renamed", "preview"}
CountsErrorNoException(kind) == kind \in {"no-local", "skip-exists"}
CountsError(kind) == kind \in {"no-local", "skip-exists", "exception"}
\* the continue of lines 191 and 231 skips the time.sleep(3) of line 244
ReachesSleep(kind) == kind \in {"renamed", "preview", "exception"}

\* The answers the resolver may give for an identifier: in a second run, the
\* ones it gave for that identifier in the first.
Given(id) == {log[k].answer : k \in {i \in 1..Len(log) : log[i].id = id /\ log[i].run = 1}}
AnswersFor(id) == IF run = 2 /\ Given(id) # {} THEN Given(id) ELSE Responses

\* lines 124-129
Start ==
    /\ pc = "start"
    /\ startupDelayed' = ~dry_run
    /\ pc' = "check"
    /\ UNCHANGED <<dry_run, rootValid, fs0, fs, run, stack, root, visited, files,
                   processed_count, error_count, slept, notified, log, inp, out>>

\* lines 131-134
InvalidRoot ==
    /\ pc = "check"
    /\ ~rootValid
    /\ notified' = [sent |-> TRUE, success |-> FALSE, processed |-> 0, errors |-> 0]
    /\ pc' = "done"
    /\ UNCHANGED <<dry_run, rootValid, fs0, fs, run, startupDelayed, stack, root,
                   visited, files, processed_count, error_count, slept, log, inp, out>>

\* lines 136-143: the counters are reset and os.walk starts at the root
EnterWalk ==
    /\ pc = "check"
    /\ rootValid
    /\ processed_count' = 0
    /\ error_count' = 0
    /\ stack' = <<Root>>
    /\ pc' = "walk"
    /\ UNCHANGED <<dry_run, rootValid, fs0, fs, run, startupDelayed, root, visited,
                   files, slept, notified, log, inp, out>>

\* lines 143-148: os.walk yields the next directory, top-down and depth-first;
\* the order of its subdirectories is the order os.scandir lists them in
WalkNext ==
    /\ pc = "walk"
    /\ stack # <<>>
    /\ LET top == Head(stack)
       IN  /\ \E order \in Perms(Prune(Children(top))) :
                 stack' = order \o Tail(stack)
           /\ root' = top
           /\ visited' = visited \cup {top}
           /\ files' = Sorted(FilesIn(fs, top))
    /\ pc' = "files"
    /\ UNCHANGED <<dry_run, rootValid, fs0, fs, run, startupDelayed,
                   processed_count, error_count, slept, notified, log, inp, out>>

\* line 149: the files of the directory are exhausted
DirDone ==
    /\ pc = "files"
    /\ files = <<>>
    /\ pc' = "walk"
    /\ UNCHANGED <<dry_run, rootValid, fs0, fs, run, startupDelayed, stack, root,
                   visited, files, processed_count, error_count, slept, notified,
                   log, inp, out>>

\* lines 150-163: the continue statements for a file that is not looked up
SkipFile ==
    /\ pc = "files"
    /\ files # <<>>
    /\ ~(Eligible(Head(files)) /\ IsFile(fs, <<root, Head(files)>>))
    /\ files' = Tail(files)
    /\ UNCHANGED <<dry_run, rootValid, fs0, fs, pc, run, startupDelayed, stack, root,
                   visited, processed_count, error_count, slept, notified, log,
                   inp, out>>

\* lines 165-241: the resolver is called and the file is renamed or not
ProcessFile ==
    /\ pc = "files"
    /\ files # <<>>
    /\ Eligible(Head(files)) /\ IsFile(fs, <<root, Head(files)>>)
    /\ \E filename \in {Head(files)} :
       \E jav_id \in {extract_id_from_filename(filename)} :
       \E a \in AnswersFor(jav_id), renameRaises \in BOOLEAN :
       \E plan \in {Process(fs, root, filename, a, dry_run, renameRaises)} :
          /\ fs' = IF plan.kind = "renamed"
                   THEN Rename(fs, <<root, filename>>, <<root, plan.target>>)
                   ELSE fs
          /\ processed_count' =
                 IF CountsProcessed(plan.kind) THEN processed_count + 1
                 ELSE processed_count
          /\ error_count' =
                 IF CountsError(plan.kind) THEN error_count + 1 ELSE error_count
          /\ pc' = IF ReachesSleep(plan.kind) THEN "sleep" ELSE "files"
          /\ log' = Append(log, [run |-> run, dir |-> root, name |-> filename,
                                 id |-> jav_id, answer |-> a,
                                 kind |-> plan.kind, target |-> plan.target,
                                 delayed |-> slept])
    /\ slept' = FALSE
    /\ files' = Tail(files)
    /\ UNCHANGED <<dry_run, rootValid, fs0, run, startupDelayed, stack, root, visited,
                   notified, inp, out>>

\* line 244
RateLimitSleep ==
    /\ pc = "sleep"
    /\ slept' = TRUE
    /\ pc' = "files"
    /\ UNCHANGED <<dry_run, rootValid, fs0, fs, run, startupDelayed, stack, root,
                   visited, files, processed_count, error_count, notified, log,
                   inp, out>>

\* lines 246-251
Finish ==
    /\ pc = "walk"
    /\ stack = <<>>
    /\ notified' = [sent |-> TRUE, success |-> TRUE, processed |-> processed_count,
                    errors |-> error_count]
    /\ pc' = "done"
    /\ UNCHANGED <<dry_run, rootValid, fs0, fs, run, startupDelayed, stack, root,
                   visited, files, processed_count, error_count, slept, log, inp, out>>

\* lines 253-259: the tool is started; the tree is any tree when the root is a
\* directory and there is none when it is not
Init ==
    /\ dry_run \in BOOLEAN
    /\ rootValid \in BOOLEAN
    /\ fs0 \in (IF rootValid THEN Trees ELSE {EmptyTree})
    /\ fs = fs0
    /\ pc = "start"
    /\ run = 1
    /\ startupDelayed = FALSE
    /\ stack = <<>>
    /\ root = Root
    /\ visited = {}
    /\ files = <<>>
    /\ processed_count = 0
    /\ error_count = 0
    /\ slept = FALSE
    /\ notified = NoNotification
    /\ log = <<>>
    /\ inp = <<>>
    /\ out = <<>>

Next ==
    \/ Start
    \/ InvalidRoot
    \/ EnterWalk
    \/ WalkNext
    \/ DirDone
    \/ SkipFile
    \/ ProcessFile
    \/ RateLimitSleep
    \/ Finish

Spec == Init /\ [][Next]_vars

\* The tool is started a second time, in execute mode, on the tree the first
\* run left (of at most MaxRerunFiles files).
Rerun ==
    /\ pc = "done"
    /\ run = 1
    /\ ~dry_run
    /\ rootValid
    /\ Cardinality(DOMAIN fs0) <= MaxRerunFiles
    /\ run' = 2
    /\ pc' = "start"
    /\ startupDelayed' = FALSE
    /\ stack' = <<>>
    /\ visited' = {}
    /\ files' = <<>>
    /\ processed_count' = 0
    /\ error_count' = 0
    /\ slept' = FALSE
    /\ notified' = NoNotification
    /\ UNCHANGED <<dry_run, rootValid, fs0, fs, root, log, inp, out>>

InitRerun == Init /\ ~dry_run /\ rootValid
NextRerun ==
    \/ Start
    \/ EnterWalk
    \/ WalkNext
    \/ DirDone
    \/ SkipFile
    \/ ProcessFile
    \/ RateLimitSleep
    \/ Finish
    \/ Rerun
SpecRerun == InitRerun /\ [][NextRerun]_vars

\* ------------------------------------------- the pure functions, applied
\* While a pure function is applied, main is not running.
Idle ==
    /\ dry_run = TRUE
    /\ rootValid = FALSE
    /\ fs0 = EmptyTree
    /\ fs = EmptyTree
    /\ run = 1
    /\ startupDelayed = FALSE
    /\ stack = <<>>
    /\ root = Root
    /\ visited = {}
    /\ files = <<>>
    /\ processed_count = 0
    /\ error_count = 0
    /\ slept = FALSE
    /\ notified = NoNotification
    /\ log = <<>>

StringsOver(alphabet, n) == UNION {[1..k -> alphabet] : k \in 0..n}

RichAlphabet == {"a", "B", "0", "1", "-", "."}
ThinAlphabet == {"a", "1", "-"}
DigitAlphabet == {"0", "1", "2", "3", "7"}
\* A name whose only match has the digit string raw.
NumberName(raw) == <<"a", "b", "-">> \o raw
NumberNames ==
    {NumberName(raw) : raw \in UNION {[1..k -> DigitAlphabet] : k \in MinDigits..MaxDigits}}
ExtractInputs ==
    StringsOver(RichAlphabet, MaxLen) \cup StringsOver(ThinAlphabet, MaxLong)
    \cup NumberNames

InitExtract ==
    /\ Idle
    /\ pc = "call"
    /\ inp \in ExtractInputs
    /\ out = <<>>

\* lines 74-93 applied to inp
ApplyExtract ==
    /\ pc = "call"
    /\ out' = extract_id_from_filename(inp)
    /\ pc' = "return"
    /\ UNCHANGED <<walkVarsButPc, inp>>

SpecExtract == InitExtract /\ [][ApplyExtract]_vars

\* The names and the answers the filename builder is applied to.
NameAbc == <<"A","B","C","-","1","2","3",".","m","p","4">>
NameAbcB == <<"A","B","C","-","1","2","3"," ","B",".","m","p","4">>
NameAbcLowB == <<"a","b","c","1","2","3","-","b",".","M","K","V">>
NameAbcE == <<"A","B","C","-","1","2","3"," ","E",".","m","p","4">>
NameAbc2 == <<"A","B","C","-","1","2","3","_","2",".","m","p","4">>
BuildNames == {NameAbc, NameAbcB, NameAbcLowB, NameAbcE, NameAbc2}

TitleTP == <<"T", " ", "P">>
TitleSlash == <<"x", "/", "y", "\\", "z", "?">>
TitlePadded == <<" ", "T", " ">>
TitleKeyword == TITLE_EXCLUDE_KEYWORDS[1] \o TitleTP
\* Titles of 50 and of 51 characters.
TitleFull == Repeat("t", MaxTitleLen)
TitleLong == Repeat("t", MaxTitleLen + 1)
BuildTitles ==
    {TitleT, TitleB, TitleTP, TitleSlash, TitlePadded, TitleKeyword, TitleFull, TitleLong}
BuildStars ==
    {<<>>, <<StarP>>, <<Star(<<"B">>)>>, <<Star(<<"2">>)>>, <<Star(<<"P", "/">>), StarP>>,
     <<StarP, Star(<<"Q">>)>>}
BuildAnswers == {Answer(FALSE, 200, TRUE, t, st) : t \in BuildTitles, st \in BuildStars}

InitBuild ==
    /\ Idle
    /\ pc = "call"
    /\ inp \in BuildNames \X BuildAnswers
    /\ out = <<>>

\* lines 197-221 applied to inp
ApplyBuild ==
    /\ pc = "call"
    /\ out' = BuildName(inp[1], inp[2])
    /\ pc' = "return"
    /\ UNCHANGED <<walkVarsButPc, inp>>

SpecBuild == InitBuild /\ [][ApplyBuild]_vars

\* The names the segment detection is applied to: an identifier or nothing,
\* then any characters, then an identifier or nothing, then an extension.
PartAlphabet == {"a", "B", "D", "E", "0", "1", "4", "5", " ", "-", "."}
IdAbc == <<"A","B","C","-","1","2","3">>
ExtMp4 == <<".","m","p","4">>
PartInputs ==
    {pre \o tail \o post \o ExtMp4 :
        pre \in {<<>>, IdAbc}, tail \in StringsOver(PartAlphabet, MaxTail),
        post \in {<<>>, IdAbc}}

InitPart ==
    /\ Idle
    /\ pc = "call"
    /\ inp \in PartInputs
    /\ out = <<>>

\* lines 166-172 applied to inp
ApplyPart ==
    /\ pc = "call"
    /\ out' = PartSuffix(inp)
    /\ pc' = "return"
    /\ UNCHANGED <<walkVarsButPc, inp>>

SpecPart == InitPart /\ [][ApplyPart]_vars

\* ----------------------------------------------------------------- claims
\* s[b..e] is 1-6 letters, an optional separator and 2-6 digits, stated
\* without reference to the scan.
Occurs(s, b, e) ==
    \E k \in MinLetters..MaxLetters, sep \in {0, 1} :
        /\ b >= 1 /\ e <= Len(s)
        /\ (e - b + 1) - k - sep \in MinDigits..MaxDigits
        /\ \A x \in b..(b + k - 1) : IsLetter(s[x])
        /\ sep = 1 => IsSep(s[b + k])
        /\ \A x \in (b + k + sep)..e : IsDigit(s[x])
Occurrences(s) ==
    {be \in (1..Len(s)) \X (1..Len(s)) :
        be[1] + MinLetters + MinDigits - 1 <= be[2] /\ Occurs(s, be[1], be[2])}
\* The occurrence that ends furthest right and, of those, starts furthest left.
Rightmost(occ) ==
    CHOOSE be \in occ :
        \A o \in occ : o[2] < be[2] \/ (o[2] = be[2] /\ o[1] >= be[1])
LettersOf(s, be) == SubSeq(s, be[1], be[1] + RunLen(LetterClass, s, be[1]) - 1)
DigitsOf(s, be) ==
    LET d == CHOOSE i \in be[1]..be[2] :
                 /\ \A x \in i..be[2] : IsDigit(s[x])
                 /\ ~IsDigit(s[i - 1])
    IN  SubSeq(s, d, be[2])

\* C6: extract_id_from_filename returns no identifier when no substring of the
\* name is 1-6 letters, an optional separator and 2-6 digits; otherwise the
\* identifier is built from the rightmost such occurrence, the last match of
\* the scan, with its letters upper-cased.
C6_LastMatchUppercased ==
    pc = "return" =>
        \A occ \in {Occurrences(inp)} :
            IF occ = {} THEN out = None
            ELSE \A be \in {Rightmost(occ)} :
                 \A letters \in {LettersOf(inp, be)} :
                    /\ out # None
                    /\ out = Upper(letters) \o <<"-">> \o NormalizeNumber(DigitsOf(inp, be))
                    /\ \A i \in 1..Len(letters) : out[i] = UpperChar(inp[be[1] + i - 1])

\* A name with two occurrences and lower-case letters has been processed.
C6_Witness ==
    /\ pc = "return"
    /\ Cardinality({be[2] : be \in Occurrences(inp)}) >= 2
    /\ \E i \in 1..Len(inp) : IsLower(inp[i])
    /\ out # None

\* The decimal value of a digit string.
RECURSIVE Val(_)
Val(ds) ==
    IF ds = <<>> THEN 0
    ELSE 10 * Val(SubSeq(ds, 1, Len(ds) - 1)) + (IndexOf(Digits, ds[Len(ds)]) - 1)

\* The number part of the identifier returned for a name of NumberNames.
NumberPart(id) == SubSeq(id, 4, Len(id))
RawOf(name) == SubSeq(name, 4, Len(name))

\* C7: the number part of the identifier is a digit string of the same value
\* as the matched digits; when 4 or more digits were matched it has no leading
\* zero ("0" when nothing remains), when 3 or fewer it has exactly 3
\* characters.  So 02 gives 002, 007 gives 007, 00231 gives 231, 0000 gives 0.
C7_NumberNormalized ==
    (pc = "return" /\ inp \in NumberNames) =>
        LET raw == RawOf(inp)
            num == NumberPart(out)
        IN  /\ SubSeq(out, 1, 3) = <<"A", "B", "-">>
            /\ num # <<>>
            /\ \A i \in 1..Len(num) : IsDigit(num[i])
            /\ Val(num) = Val(raw)
            /\ Len(raw) >= 4 => (num = <<"0">> \/ num[1] # "0")
            /\ Len(raw) <= 3 => Len(num) = 3
            /\ raw = <<"0", "2">> => num = <<"0", "0", "2">>
            /\ raw = <<"0", "0", "7">> => num = <<"0", "0", "7">>
            /\ raw = <<"0", "0", "2", "3", "1">> => num = <<"2", "3", "1">>
            /\ raw = <<"0", "0", "0", "0">> => num = <<"0">>

\* A short digit string was padded and a long one with leading zeros stripped.
C7_Witness ==
    /\ pc = "return"
    /\ inp = NumberName(<<"0", "0", "2", "3", "1">>)
    /\ out = <<"A", "B", "-", "2", "3", "1">>

\* The name the claim describes for a successful lookup: identifier, space,
\* title, marker, bracketed first performer unless omitted, extension.
Composed(name, a, omit) ==
    LET actor == IF a.stars = <<>> THEN <<>> ELSE sanitize_filename(a.stars[1].name)
    IN  extract_id_from_filename(name) \o <<" ">> \o CleanTitle(a.title)
        \o PartSuffix(name)
        \o (IF omit THEN <<>> ELSE <<" ", "[">> \o actor \o <<"]">>)
        \o SplitExt(name)[2]
ActorOf(a) == <<" ">> \o sanitize_filename(a.stars[1].name)

\* C10 as stated: the bracketed performer is omitted exactly when there is no
\* performer or title+marker ends with a space and the performer name.
C10_TestOnTitleAndMarker ==
    pc = "return" =>
        out = Composed(inp[1], inp[2],
                       \/ inp[2].stars = <<>>
                       \/ EndsWith(CleanTitle(inp[2].title) \o PartSuffix(inp[1]),
                                   ActorOf(inp[2])))

\* C10, amended: on a successful lookup whose first performer has a name, the
\* target is identifier, space, sanitized title, marker, bracketed sanitized
\* first performer, extension; the bracketed performer is omitted exactly when
\* there is no performer or the sanitized title alone ends with a space and
\* the performer name.
C10_TestOnTitleAlone ==
    pc = "return" =>
        /\ out = Composed(inp[1], inp[2],
                          \/ inp[2].stars = <<>>
                          \/ EndsWith(CleanTitle(inp[2].title), ActorOf(inp[2])))
        /\ Len(CleanTitle(inp[2].title)) <= MaxTitleLen + 3
        /\ \A i \in 1..Len(out) : out[i] \notin IllegalChars

\* A name with a marker was built where title+marker ends with the performer
\* name and the title alone does not: the bracket is kept.
C10_Witness ==
    /\ pc = "return"
    /\ inp[1] = NameAbcB
    /\ inp[2] = Answer(FALSE, 200, TRUE, TitleT, <<Star(<<"B">>)>>)
    /\ out = <<"A","B","C","-","1","2","3"," ","T"," ","B"," ","[","B","]",".","m","p","4">>

\* The record of the resolver call a step makes.
Called == Len(log') = Len(log) + 1
Last == log'[Len(log')]
\* os.rename(src, dst) took effect: dst holds what src held, src is gone and
\* every other path is as it was.
Moved(src, dst) ==
    /\ DOMAIN fs' = (DOMAIN fs \ {src}) \cup {dst}
    /\ fs'[dst] = fs[src]
    /\ \A p \in DOMAIN fs \ {src, dst} : fs'[p] = fs[p]
Counted(p, e) ==
    /\ processed_count' = processed_count + p
    /\ error_count' = error_count + e

\* C1, every step of an execute run: when something exists at the computed
\* target the tree is unchanged, the error count rises by one and the
\* processed count does not; the tree changes only by moving the source to a
\* target path where nothing existed.
C1_Step ==
    (Called /\ ~dry_run) =>
        IF Last.target # None /\ <<Last.dir, Last.target>> \in DOMAIN fs
        THEN fs' = fs /\ Counted(0, 1) /\ Last.kind = "skip-exists"
        ELSE fs' # fs =>
                /\ Last.target # None
                /\ <<Last.dir, Last.target>> \notin DOMAIN fs
                /\ Moved(<<Last.dir, Last.name>>, <<Last.dir, Last.target>>)
                /\ Counted(1, 0)

\* C1, two files of one directory with the same computed target: when the
\* first was renamed the second was skipped, and the target holds the first
\* file's content from then on.
C1_Collision ==
    \A i, j \in 1..Len(log) :
        (/\ i < j /\ ~dry_run
         /\ log[i].dir = log[j].dir
         /\ log[i].target # None /\ log[i].target = log[j].target
         /\ log[i].kind = "renamed")
        => /\ log[j].kind = "skip-exists"
           /\ <<log[i].dir, log[i].target>> \in DOMAIN fs
           /\ fs[<<log[i].dir, log[i].target>>] = fs0[<<log[i].dir, log[i].name>>]
           /\ <<log[j].dir, log[j].name>> \in DOMAIN fs
           /\ fs[<<log[j].dir, log[j].name>>] = fs0[<<log[j].dir, log[j].name>>]

\* C1: in execute mode a rename is committed only when nothing exists at the
\* target; otherwise source and target are untouched and the file counts as an
\* error; of two files with one target the first is renamed, the second skipped.
C1_NoOverwrite == [][C1_Step]_vars /\ []C1_Collision

\* Two files collided: the first was renamed, the second skipped.
C1_Witness ==
    /\ pc = "done" /\ ~dry_run
    /\ \E i, j \in 1..Len(log) :
          /\ i < j
          /\ log[i].dir = log[j].dir /\ log[i].target = log[j].target
          /\ log[i].kind = "renamed" /\ log[j].kind = "skip-exists"

\* C2: in a preview run the tree is, in every state, the tree at the start,
\* and no rename is issued, whatever the resolver answers.
C2_PreviewChangesNothing ==
    dry_run => /\ fs = fs0
               /\ \A k \in 1..Len(log) : log[k].kind \notin {"renamed", "skip-exists"}

\* A preview run ended after a success, a failed lookup and an exception.
C2_Witness ==
    /\ dry_run /\ pc = "done"
    /\ \E i, j, k \in 1..Len(log) :
          /\ log[i].kind = "preview" /\ ~LookupFailed(log[i].answer)
          /\ log[j].kind = "preview" /\ LookupFailed(log[j].answer)
          /\ log[k].kind = "exception"

\* C3 as stated, for a file the first run renamed and the resolver answers the
\* same for: the second run extracts the same identifier and does not rename it.
C3_SecondRunRenamesNothing ==
    \A i, j \in 1..Len(log) :
        (/\ log[i].run = 1 /\ log[i].kind = "renamed"
         /\ log[j].run = 2
         /\ log[j].dir = log[i].dir /\ log[j].name = log[i].target
         /\ log[j].answer = log[i].answer)
        => /\ log[j].id = log[i].id
           /\ log[j].kind # "renamed"

\* C4: after a failed lookup (status other than 200, no result, empty title)
\* the target is the base name with every clean pattern removed plus the
\* extension; when nothing was removed the file is not renamed, the error
\* count rises by one and the processed count does not; otherwise the file is
\* previewed (processed) or, in execute mode, checked for a conflict and renamed.
C4_Step ==
    (/\ Called /\ ~Last.answer.raises
     /\ (Last.answer.code # 200 \/ ~Last.answer.hasInfo \/ Last.answer.title = <<>>))
    => LET base == SplitExt(Last.name)[1]
           ext == SplitExt(Last.name)[2]
           cleaned == RemoveAll(base, FILENAME_CLEAN_PATTERNS[1])
           src == <<Last.dir, Last.name>>
           dst == <<Last.dir, cleaned \o ext>>
       IN  /\ base \o ext = Last.name
           /\ IF cleaned = base
              THEN fs' = fs /\ Counted(0, 1) /\ Last.target = None
              ELSE /\ Last.target = cleaned \o ext
                   /\ dry_run => fs' = fs /\ Counted(1, 0)
                   /\ (~dry_run /\ dst \in DOMAIN fs) => fs' = fs /\ Counted(0, 1)
                   /\ (~dry_run /\ dst \notin DOMAIN fs) =>
                         \/ Moved(src, dst) /\ Counted(1, 0)
                         \/ fs' = fs /\ Counted(0, 1) /\ Last.kind = "exception"
           /\ Last.name = NameTagged => cleaned \o ext = NamePlain
C4_Fallback == [][C4_Step]_vars

\* After a failed lookup one file was renamed to its cleaned name and another
\* one, which no pattern matches, was counted as an error.
C4_Witness ==
    \E i, j \in 1..Len(log) :
        /\ LookupFailed(log[i].answer) /\ ~log[i].answer.raises
        /\ log[i].kind = "renamed" /\ log[i].target = NamePlain
        /\ LookupFailed(log[j].answer) /\ ~log[j].answer.raises
        /\ log[j].kind = "no-local"

\* The files of the initial tree that main has to look up: those outside the
\* no_need directories that are not hidden, have a supported extension and
\* yield an identifier.
LookedUpSlots ==
    UNION {IF ~UnderNoNeed(p[1]) /\ Eligible(p[2]) THEN {p} ELSE {} : p \in Slots}
ToLookUp == DOMAIN fs0 \cap LookedUpSlots
Logged == {<<log[k].dir, log[k].name>> : k \in 1..Len(log)}

\* A number that every step of main decreases.
Variant ==
    (3 * Cardinality(Slots) + 3) * Cardinality(Dirs \ visited)
    + 3 * Len(files)
    + (CASE pc = "start" -> 5 [] pc = "check" -> 4 [] pc = "sleep" -> 3
         [] pc = "files" -> 2 [] pc = "walk" -> 1 [] OTHER -> 0)

\* C5, the step on which a file raises: nothing is renamed, the error count
\* rises by exactly one, the processed count is unchanged and main goes on.
C5_Step ==
    (Called /\ (Last.answer.raises \/ Last.kind = "exception")) =>
        /\ Last.kind = "exception"
        /\ fs' = fs
        /\ Counted(0, 1)
        /\ pc' # "done"
\* C5, the end of the run: every file to look up was looked up once, and the
\* completion notification was sent with the two counts.
C5_End ==
    (pc = "done" /\ rootValid) =>
        /\ Logged = ToLookUp
        /\ Len(log) = Cardinality(ToLookUp)
        /\ notified = [sent |-> TRUE, success |-> TRUE,
                       processed |-> processed_count, errors |-> error_count]
\* Some step of main can be taken: a step outside the two loops; or os.walk
\* has a directory to yield, in some order of its subdirectories; or there is
\* a file left, which is skipped (lines 150-163) or looked up, the resolver
\* giving some answer.
CanStep ==
    \/ ENABLED (Start \/ InvalidRoot \/ EnterWalk \/ DirDone \/ RateLimitSleep \/ Finish)
    \/ /\ pc = "walk" /\ stack # <<>>
       /\ Perms(Prune(Children(Head(stack)))) # {}
    \/ /\ pc = "files" /\ files # <<>>
       /\ (Eligible(Head(files)) /\ IsFile(fs, <<root, Head(files)>>))
             => AnswersFor(extract_id_from_filename(Head(files))) # {}
\* C5: an exception of the resolver, the build or the rename is caught for its
\* file only: one more error, the remaining files are still processed, and the
\* run ends (no step is stuck before the end, and every step brings the end
\* closer) with the completion notification.
C5_ExceptionIsLocal ==
    /\ [][C5_Step]_vars
    /\ []C5_End
    /\ [](pc # "done" => CanStep)
    /\ [][Variant' < Variant]_vars

\* A run ended in which a file raised and a later file was processed.
C5_Witness ==
    /\ pc = "done" /\ notified.sent
    /\ \E i, j \in 1..Len(log) :
          /\ i < j
          /\ log[i].kind = "exception"
          /\ log[j].kind \in {"renamed", "preview"}

\* C8: no directory at or below a directory named no_need is visited, no file
\* of one is passed to the resolver, renamed or counted.
C8_NoNeedPruned ==
    /\ \A d \in visited : ~UnderNoNeed(d)
    /\ ~UnderNoNeed(root)
    /\ \A k \in 1..Len(log) : ~UnderNoNeed(log[k].dir)
    /\ \A p \in DOMAIN fs0 : UnderNoNeed(p[1]) => (p \in DOMAIN fs /\ fs[p] = fs0[p])
    /\ \A p \in DOMAIN fs : UnderNoNeed(p[1]) => p \in DOMAIN fs0
    /\ processed_count + error_count
         <= Cardinality({p \in DOMAIN fs0 : ~UnderNoNeed(p[1])})

\* A run ended on a tree with a file below no_need, a file in a no_need of a
\* subdirectory and a file that was processed.
C8_Witness ==
    /\ pc = "done"
    /\ <<<<"no_need", "deep">>, NamePlain>> \in DOMAIN fs0
    /\ <<<<"sub", "no_need">>, NamePlain>> \in DOMAIN fs0
    /\ processed_count + error_count = 1

\* C9 as stated: before every resolver call but the first, the rate-limit
\* delay has occurred since the call before it.
C9_DelayBeforeEveryCall ==
    \A k \in 2..Len(log) : log[k].delayed

\* A name main has to look up, stated without reference to the loop's tests:
\* it does not start with a dot, it ends (in any case) with one of the allowed
\* extensions, and some substring of it is an identifier.
Wanted(name) ==
    /\ name # <<>> /\ name[1] # "."
    /\ \E ext \in SUPPORTED_EXTENSIONS : EndsWith(Lower(name), ext)
    /\ Occurrences(name) # {}
WantedSlots ==
    UNION {IF ~UnderNoNeed(p[1]) /\ Wanted(p[2]) THEN {p} ELSE {} : p \in Slots}
IsWanted(p) == IF p \in Slots THEN p \in WantedSlots ELSE Wanted(p[2])

\* C11, every step: the resolver is called only for the file being iterated
\* and only when that file is wanted, with one call; the step that passes over
\* any other file calls nothing, renames nothing and leaves both counts.
C11_Step ==
    /\ log' # log =>
          /\ pc = "files" /\ files # <<>>
          /\ IsWanted(<<root, Head(files)>>)
          /\ Called
          /\ Last.dir = root /\ Last.name = Head(files)
          /\ SubSeq(log', 1, Len(log)) = log
    /\ (pc = "files" /\ files # <<>>) =>
          /\ files' = Tail(files)
          /\ IF IsWanted(<<root, Head(files)>>)
             THEN Called
             ELSE log' = log /\ fs' = fs /\ Counted(0, 0)
\* C11, every state: no file was looked up twice (a failed lookup included),
\* every file looked up is a wanted file of the scanned tree, and when the run
\* has ended every wanted file of the scanned tree was looked up.
C11_Calls ==
    /\ \A i, j \in 1..Len(log) :
          (log[i].dir = log[j].dir /\ log[i].name = log[j].name) => i = j
    /\ \A k \in 1..Len(log) :
          <<log[k].dir, log[k].name>> \in DOMAIN fs0 \cap WantedSlots
    /\ (pc = "done" /\ rootValid) =>
          \A p \in DOMAIN fs0 \cap WantedSlots :
             Cardinality({k \in 1..Len(log) : <<log[k].dir, log[k].name>> = p}) = 1
\* C11: the resolver is called exactly once for every scanned file that is not
\* hidden, has an extension of the allow-list and yields an identifier, and
\* never for another file; a file skipped as hidden, unsupported or without
\* identifier changes neither count; a failed lookup is not retried.
C11_OneCallPerWantedFile == [][C11_Step]_vars /\ []C11_Calls

\* A run ended on a tree with a hidden file, a file without identifier and a
\* wanted file whose single lookup failed.
C11_Witness ==
    /\ pc = "done"
    /\ {<<Root, NameHidden>>, <<Root, NameNoId>>, <<Root, NamePlain>>} = DOMAIN fs0
    /\ Len(log) = 1
    /\ log[1].name = NamePlain /\ log[1].kind = "no-local"
    /\ processed_count = 0 /\ error_count = 1

\* The characters a segment marker is read from.
MarkerChars == {"A", "B", "C", "D", "a", "b", "c", "d", "1", "2", "3", "4"}
\* The segment marker that follows from the last letter/digit run of base,
\* stated on the run's last character and the character before it: the run is
\* one character long and that character is a marker character.
MarkerOf(base) ==
    LET idx == {i \in 1..Len(base) : IsAlnum(base[i])}
    IN  IF idx = {} THEN <<>>
        ELSE LET e == CHOOSE i \in idx : \A j \in idx : j <= i
             IN  IF (e = 1 \/ ~IsAlnum(base[e - 1])) /\ base[e] \in MarkerChars
                 THEN <<UpperChar(base[e])>>
                 ELSE <<>>

\* C12: the segment marker is the last maximal letter/digit run of the base
\* name, upper-cased, when that run is a single character among A-D (either
\* case) or 1-4, and there is none otherwise, wherever the identifier stands
\* in the name; the suffix appended to the title is a space and the marker.
\* "ABC-123 B.mp4" gives B, "ABC-123.mp4" and "ABC-123 E.mp4" give none.
C12_MarkerFromLastToken ==
    /\ pc = "return" =>
          \E marker \in {MarkerOf(SplitExt(inp)[1])} :
             out = IF marker = <<>> THEN <<>> ELSE <<" ">> \o marker
    /\ PartSuffix(NameAbcB) = <<" ", "B">>
    /\ PartSuffix(NameAbc) = <<>>
    /\ PartSuffix(NameAbcE) = <<>>

\* The detection was applied to "ABC-123 B.mp4" and gave the marker B.
C12_Witness ==
    /\ pc = "return"
    /\ inp = NameAbcB
    /\ out = <<" ", "B">>

\* The outcomes of a file after its resolver call, by the counter they go to.
Successes == {"renamed", "preview"}
Failures == {"no-local", "skip-exists", "exception"}
NumberOf(kinds) == Cardinality({k \in 1..Len(log) : log[k].kind \in kinds})

\* C13, every step: a file whose processing completes after a resolver call
\* adds one to exactly one counter, the processed count when it was renamed or
\* previewed and the error count when there was no local optimization, the
\* target existed or an exception was raised; no other step changes a counter.
C13_Step ==
    /\ Called =>
          /\ Last.kind \in Successes \cup Failures
          /\ Last.kind \in Successes => Counted(1, 0)
          /\ Last.kind \in Failures => Counted(0, 1)
    /\ ~Called => Counted(0, 0)
    /\ processed_count' >= processed_count
    /\ error_count' >= error_count
\* C13, every state of a run with a valid root: the two counts add up to the
\* number of files completed after a resolver call, each count being the
\* number of files that ended in one of its outcomes.
C13_Sum ==
    rootValid =>
        /\ processed_count + error_count = Len(log)
        /\ processed_count = NumberOf(Successes)
        /\ error_count = NumberOf(Failures)
\* C13: processed_count + error_count is the number of files completed after a
\* resolver call; each such file increments exactly one counter exactly once,
\* in every outcome, and neither counter ever decreases.
C13_CountersPartitionCalls == [][C13_Step]_vars /\ []C13_Sum

\* An execute run ended in which one file was renamed, one found its target
\* taken and one raised.
C13_Witness ==
    /\ pc = "done" /\ rootValid /\ ~dry_run
    /\ \E i, j, k \in 1..Len(log) :
          /\ log[i].kind = "renamed"
          /\ log[j].kind = "skip-exists"
          /\ log[k].kind = "exception"
    /\ processed_count = 1 /\ error_count = 2

====
